---- MODULE Spec2Model ----
(***************************************************************************)
(* Crop recommendation web application (src/app.py): the four request     *)
(* handlers, the presence decorator, the two sanitizers and the           *)
(* load-once model state.                                                 *)
(*                                                                         *)
(* Text is a sequence of one-character strings.  A form is a function     *)
(* from the names of the fields it contains to their text, so that        *)
(* `field not in request.form` is `field \notin DOMAIN form`.  A number   *)
(* read by float() is kept exactly, as a sign, a mantissa and a count of  *)
(* decimals.  The classifier, the label decoder and the PDF layout are    *)
(* opaque dependencies: the first two are fixed by the artifact loaded at *)
(* import time, the last is an outcome drawn per request.  The formatted  *)
(* parameter strings (f"{x:.1f}") and the timestamps are not modelled.    *)
(***************************************************************************)
EXTENDS Integers, Sequences, FiniteSets, TLC

VARIABLES files, model, label_encoder, pc, req, data, crop, resp, steps, lastSeen

vars == <<files, model, label_encoder, pc, req, data, crop, resp, steps, lastSeen>>

(* ------------------------------ bounds -------------------------------- *)

\* Requests that may be in flight at once in the concurrent specification.
NumThreads == 2

\* Fields of the base form that one request may replace at the same time.
MaxBad == 2

Threads == 1..NumThreads

None == "None"

(* ------------------------------- text --------------------------------- *)

Digits == {"0", "1", "2", "3", "4", "5", "6", "7", "8", "9"}

Whitespace == {" ", "\t", "\n"}

IsNumericChar(c) == c \in Digits \cup {".", "-"}

IsDigit(c) == c \in Digits

DigitVal(c) ==
    CASE c = "0" -> 0 [] c = "1" -> 1 [] c = "2" -> 2 [] c = "3" -> 3
      [] c = "4" -> 4 [] c = "5" -> 5 [] c = "6" -> 6 [] c = "7" -> 7
      [] c = "8" -> 8 [] c = "9" -> 9

RECURSIVE DigitsToInt(_)
DigitsToInt(s) ==
    IF s = <<>> THEN 0
    ELSE 10 * DigitsToInt(SubSeq(s, 1, Len(s) - 1)) + DigitVal(s[Len(s)])

RECURSIVE Pow10(_)
Pow10(n) == IF n = 0 THEN 1 ELSE 10 * Pow10(n - 1)

\* str.strip(): leading and trailing whitespace removed.
RECURSIVE LStrip(_)
LStrip(s) ==
    IF s # <<>> /\ s[1] \in Whitespace THEN LStrip(Tail(s)) ELSE s

RECURSIVE RStrip(_)
RStrip(s) ==
    IF s # <<>> /\ s[Len(s)] \in Whitespace
    THEN RStrip(SubSeq(s, 1, Len(s) - 1))
    ELSE s

Strip(s) == RStrip(LStrip(s))

\* text[:n]
Truncate(s, n) == IF Len(s) <= n THEN s ELSE SubSeq(s, 1, n)

UpperChar(c) ==
    CASE c = "a" -> "A" [] c = "c" -> "C" [] c = "e" -> "E" [] c = "i" -> "I"
      [] c = "k" -> "K" [] c = "r" -> "R" [] c = "w" -> "W"
      [] OTHER -> c

\* str.upper()
Upper(s) == [i \in 1..Len(s) |-> UpperChar(s[i])]

(* ------------------------------ float() ------------------------------- *)

\* re.sub(r'[^0-9.-]', '', str(value))
Clean(s) == SelectSeq(s, IsNumericChar)

Unsigned(c) == IF c # <<>> /\ c[1] = "-" THEN Tail(c) ELSE c

\* The texts over 0-9 . - that float() accepts: an optional leading minus,
\* then digits with at most one point and at least one digit.
FloatAccepts(c) ==
    LET b == Unsigned(c) IN
    /\ \A i \in 1..Len(b) : b[i] # "-"
    /\ Cardinality({i \in 1..Len(b) : b[i] = "."}) <= 1
    /\ \E i \in 1..Len(b) : IsDigit(b[i])

\* float(c) for an accepted text: (-1)^neg * m / 10^e.
FloatValue(c) ==
    LET b   == Unsigned(c)
        dot == {i \in 1..Len(b) : b[i] = "."}
        e   == IF dot = {} THEN 0 ELSE Len(b) - (CHOOSE i \in dot : TRUE)
    IN  [neg |-> (c[1] = "-"), m |-> DigitsToInt(SelectSeq(b, IsDigit)), e |-> e]

Signed(v) == IF v.neg THEN 0 - v.m ELSE v.m

\* num_value < bound and num_value > bound, bound an integer.
NumLess(v, bound) == Signed(v) < bound * Pow10(v.e)

NumGreater(v, bound) == Signed(v) > bound * Pow10(v.e)

(* --------------------------- the sanitizers --------------------------- *)

ValueError(field_name, detail, bound) ==
    [type |-> "ValueError", text |-> "Invalid", field |-> field_name,
     detail |-> detail, bound |-> bound]

\* Mutant: the upper bound is never compared.
sanitize_numeric_input_no_max(value, min_val, max_val, field_name) ==
    LET cleaned == Clean(value) IN
    IF ~FloatAccepts(cleaned)
    THEN [ok |-> FALSE,
          error |-> ValueError(field_name, "could not convert string to float", 0)]
    ELSE LET num_value == FloatValue(cleaned) IN
         IF NumLess(num_value, min_val)
         THEN [ok |-> FALSE, error |-> ValueError(field_name, "must be at least", min_val)]
         ELSE [ok |-> TRUE, num |-> num_value]

\* Mutant: the bounds are compared with <= and >=, so a value at a bound fails.
sanitize_numeric_input_exclusive(value, min_val, max_val, field_name) ==
    LET cleaned == Clean(value) IN
    IF ~FloatAccepts(cleaned)
    THEN [ok |-> FALSE,
          error |-> ValueError(field_name, "could not convert string to float", 0)]
    ELSE LET num_value == FloatValue(cleaned) IN
         IF ~NumGreater(num_value, min_val)
         THEN [ok |-> FALSE, error |-> ValueError(field_name, "must be at least", min_val)]
         ELSE IF ~NumLess(num_value, max_val)
         THEN [ok |-> FALSE, error |-> ValueError(field_name, "must be at most", max_val)]
         ELSE [ok |-> TRUE, num |-> num_value]

\* sanitize_numeric_input(value, min_val, max_val, field_name): the number,
\* or the ValueError the except clause re-raises as "Invalid <field_name>: ...".
sanitize_numeric_input(value, min_val, max_val, field_name) ==
    LET cleaned == Clean(value) IN
    IF ~FloatAccepts(cleaned)
    THEN [ok |-> FALSE,
          error |-> ValueError(field_name, "could not convert string to float", 0)]
    ELSE LET num_value == FloatValue(cleaned) IN
         IF NumLess(num_value, min_val)
         THEN [ok |-> FALSE, error |-> ValueError(field_name, "must be at least", min_val)]
         ELSE IF NumGreater(num_value, max_val)
         THEN [ok |-> FALSE, error |-> ValueError(field_name, "must be at most", max_val)]
         ELSE [ok |-> TRUE, num |-> num_value]

\* sanitize_input(text, max_length) for a form value, which is always a str.
sanitize_input(text, max_length) == Truncate(Strip(text), max_length)

\* max_length of the crop text in download_report.
MaxCropLen == 100

(* ------------------------- the field tables --------------------------- *)

PredictRequired == <<"N", "P", "K", "temperature", "humidity", "ph", "rainfall">>

ReportRequired ==
    <<"crop", "N", "P", "K", "temperature", "humidity", "ph", "rainfall">>

\* The seven sanitize_numeric_input calls of predict(), in list order.
PredictChecks ==
    << [field |-> "N",           min |-> 0,   max |-> 200,  name |-> "Nitrogen (N)"],
       [field |-> "P",           min |-> 0,   max |-> 200,  name |-> "Phosphorus (P)"],
       [field |-> "K",           min |-> 0,   max |-> 200,  name |-> "Potassium (K)"],
       [field |-> "temperature", min |-> -50, max |-> 100,  name |-> "Temperature"],
       [field |-> "humidity",    min |-> 0,   max |-> 100,  name |-> "Humidity"],
       [field |-> "ph",          min |-> 0,   max |-> 14,   name |-> "pH"],
       [field |-> "rainfall",    min |-> 0,   max |-> 1000, name |-> "Rainfall"] >>

\* The seven sanitize_numeric_input calls of download_report(), in dict order.
ReportChecks ==
    << [field |-> "N",           min |-> 0,   max |-> 200,  name |-> "Nitrogen"],
       [field |-> "P",           min |-> 0,   max |-> 200,  name |-> "Phosphorus"],
       [field |-> "K",           min |-> 0,   max |-> 200,  name |-> "Potassium"],
       [field |-> "temperature", min |-> -50, max |-> 100,  name |-> "Temperature"],
       [field |-> "humidity",    min |-> 0,   max |-> 100,  name |-> "Humidity"],
       [field |-> "ph",          min |-> 0,   max |-> 14,   name |-> "pH"],
       [field |-> "rainfall",    min |-> 0,   max |-> 1000, name |-> "Rainfall"] >>

SanitizeAt(checks, form, i) ==
    sanitize_numeric_input(form[checks[i].field], checks[i].min, checks[i].max,
                           checks[i].name)

\* Mutant: the error reported is that of the last failing call, not the first.
LastInvalid(checks, form) ==
    LET bad == {i \in 1..Len(checks) :
                   ~sanitize_numeric_input(form[checks[i].field], checks[i].min,
                                           checks[i].max, checks[i].name).ok} IN
    IF bad = {} THEN 0 ELSE CHOOSE i \in bad : \A j \in bad : i >= j

\* The list / dict display is evaluated left to right and the first ValueError
\* leaves it: the index of the first failing call, 0 when none fails.
FirstInvalid(checks, form) ==
    LET bad == {i \in 1..Len(checks) : ~SanitizeAt(checks, form, i).ok} IN
    IF bad = {} THEN 0 ELSE CHOOSE i \in bad : \A j \in bad : i <= j

SanitizedData(checks, form) ==
    [i \in 1..Len(checks) |-> SanitizeAt(checks, form, i).num]

\* Mutant: only `field not in request.form` is tested, a blank value passes.
FirstMissingAbsentOnly(required_fields, form) ==
    LET bad == {i \in 1..Len(required_fields) : required_fields[i] \notin DOMAIN form} IN
    IF bad = {} THEN 0 ELSE CHOOSE i \in bad : \A j \in bad : i <= j

\* The loop of decorated_function: the index of the first required field that
\* is not in the form or is blank, 0 when there is none.
FirstMissing(required_fields, form) ==
    LET bad == {i \in 1..Len(required_fields) :
                   \/ required_fields[i] \notin DOMAIN form
                   \/ Strip(form[required_fields[i]]) = <<>>} IN
    IF bad = {} THEN 0 ELSE CHOOSE i \in bad : \A j \in bad : i <= j

(* ------------------------- model artifacts ---------------------------- *)

\* What may sit at model/rf_model.pkl: nothing, a file joblib cannot load, a
\* classifier that predicts, one fitted on another number of features
\* (predict raises ValueError), one pickled by another library version
\* (predict raises AttributeError).
ModelFiles == {"absent", "corrupt", "rf_ok", "rf_features_mismatch", "rf_broken"}

\* What may sit at model/label_encoder.pkl: nothing, an unloadable file, the
\* decoder of the classifier's classes, a decoder fitted on fewer classes
\* (inverse_transform raises ValueError on a class it has not seen).
EncoderFiles == {"absent", "corrupt", "le_ok", "le_short"}

\* Mutant: the except clause resets label_encoder only, so a classifier that
\* loaded before the decoder failed stays bound.
LoadModelsKeepsModel(f) ==
    IF f.model = "absent" \/ f.encoder = "absent"
    THEN [model |-> None, label_encoder |-> None]
    ELSE IF f.model = "corrupt"
    THEN [model |-> None, label_encoder |-> None]
    ELSE IF f.encoder = "corrupt"
    THEN [model |-> f.model, label_encoder |-> None]
    ELSE [model |-> f.model, label_encoder |-> f.encoder]

\* The module-level try/except: both names are bound to the loaded objects,
\* or both to None.
LoadModels(f) ==
    IF f.model = "absent" \/ f.encoder = "absent"
    THEN [model |-> None, label_encoder |-> None]
    ELSE IF f.model = "corrupt"
    THEN [model |-> None, label_encoder |-> None]
    ELSE IF f.encoder = "corrupt"
    THEN [model |-> None, label_encoder |-> None]
    ELSE [model |-> f.model, label_encoder |-> f.encoder]

\* Mutant: the class of an earlier answer is kept and returned again.
ClassIdStale(d) ==
    IF lastSeen.label = "chickpea" THEN 2
    ELSE IF NumGreater(d[7], 150) THEN 0
    ELSE IF NumGreater(d[1], 100) THEN 1
    ELSE 2

\* The fitted forest, a fixed function of the feature vector: a stand-in
\* decision tree over rainfall and nitrogen.
ClassId(d) ==
    IF NumGreater(d[7], 150) THEN 0
    ELSE IF NumGreater(d[1], 100) THEN 1
    ELSE 2

\* model.predict(prediction_array)[0]
ClassifierPredict(m, d) ==
    CASE m = "rf_ok" -> [raised |-> None, value |-> ClassId(d)]
      [] m = None ->
            [raised |-> "AttributeError",
             text |-> "'NoneType' object has no attribute 'predict'"]
      [] m = "rf_features_mismatch" ->
            [raised |-> "ValueError",
             text |-> "X has 7 features, but RandomForestClassifier is expecting 8 features as input."]
      [] m = "rf_broken" ->
            [raised |-> "AttributeError",
             text |-> "'DecisionTreeClassifier' object has no attribute 'monotonic_cst'"]

EncoderClasses(e) ==
    CASE e = "le_ok" -> <<"rice", "maize", "chickpea">>
      [] e = "le_short" -> <<"rice">>

\* label_encoder.inverse_transform([prediction_num])[0]
InverseTransform(e, id) ==
    IF e = None
    THEN [raised |-> "AttributeError",
          text |-> "'NoneType' object has no attribute 'inverse_transform'"]
    ELSE IF id + 1 \in 1..Len(EncoderClasses(e))
    THEN [raised |-> None, value |-> EncoderClasses(e)[id + 1]]
    ELSE [raised |-> "ValueError", text |-> "y contains previously unseen labels"]

\* How the canvas calls and send_file of one request may end.
RenderOutcomes == {"ok", "ValueError", "Exception"}

(* ------------------------------ requests ------------------------------ *)

Fields == {"crop", "N", "P", "K", "temperature", "humidity", "ph", "rainfall"}

\* The request of the report example: crop=rice, N=90, P=42, K=43,
\* temperature=20.8, humidity=82, ph=6.5, rainfall=202.9.
Base ==
    [crop        |-> <<"r", "i", "c", "e">>,
     N           |-> <<"9", "0">>,
     P           |-> <<"4", "2">>,
     K           |-> <<"4", "3">>,
     temperature |-> <<"2", "0", ".", "8">>,
     humidity    |-> <<"8", "2">>,
     ph          |-> <<"6", ".", "5">>,
     rainfall    |-> <<"2", "0", "2", ".", "9">>]

\* Texts tried in any numeric field: empty, blank, letters only, a lone
\* minus, a number with letters in it (1e3, " 42 kg").
CommonSamples ==
    { <<>>, <<" ">>, <<"\t", " ">>, <<"a", "b", "c">>, <<"-">>,
      <<"1", "e", "3">>, <<" ", "4", "2", " ", "k", "g">>, <<"1", ".", "2", ".", "3">> }

\* Texts at and just beyond each field's bounds.
EdgeSamples(f) ==
    CASE f \in {"N", "P", "K"} ->
            { <<"0">>, <<"2", "0", "0">>, <<"-", "1">>, <<"2", "0", "1">>,
              <<"2", "0", "0", ".", "5">>, <<"-", "0", ".", "5">>, <<"1", "5", "0">> }
      [] f = "temperature" ->
            { <<"-", "5", "0">>, <<"1", "0", "0">>, <<"-", "5", "1">>, <<"1", "0", "1">>,
              <<"-", "5", "0", ".", "5">>, <<"1", "0", "0", ".", "5">> }
      [] f = "humidity" ->
            { <<"0">>, <<"1", "0", "0">>, <<"-", "1">>, <<"1", "0", "1">> }
      [] f = "ph" ->
            { <<"0">>, <<"1", "4">>, <<"-", "0", ".", "1">>, <<"1", "4", ".", "0", "1">> }
      [] f = "rainfall" ->
            { <<"0">>, <<"1", "0", "0", "0">>, <<"-", "1">>, <<"1", "0", "0", "1">>,
              <<"1", "0", "0", "0", ".", "0">> }

\* A crop text longer than the report keeps, with blanks around it.
LongCrop == [i \in 1..(MaxCropLen + 3) |-> IF i \in {1, MaxCropLen + 3} THEN " " ELSE "a"]

CropSamples ==
    { <<>>, <<" ">>, <<" ", "R", "i", "c", "e", "\n">>, <<"k", "i", "w", "i">>, LongCrop }

Samples(f) == IF f = "crop" THEN CropSamples ELSE CommonSamples \cup EdgeSamples(f)

\* What several fields of one request are replaced by at the same time.
BadKinds == {"absent", "blank", "letters", "large"}

BadText(f, kind) ==
    CASE kind = "blank" -> <<" ">>
      [] kind = "letters" -> <<"a", "b", "c">>
      [] kind = "large" -> IF f = "crop" THEN <<"k", "i", "w", "i">>
                                         ELSE <<"9", "9", "9", "9">>
      [] OTHER -> <<>>

BadForm(D, kinds) ==
    [f \in Fields \ {g \in D : kinds[g] = "absent"} |->
        IF f \in D THEN BadText(f, kinds[f]) ELSE Base[f]]

Forms ==
    {Base}
    \cup {[Base EXCEPT ![f] = s] : <<f, s>> \in UNION {{f} \X Samples(f) : f \in Fields}}
    \cup UNION {{BadForm(D, kinds) : kinds \in [D -> BadKinds]} :
                   D \in {E \in SUBSET Fields : Cardinality(E) \in 1..MaxBad}}

\* The requests of the concurrent specification: two valid vectors of
\* different classes and one with a field out of range.
FewForms ==
    { Base,
      [Base EXCEPT !["rainfall"] = <<"0">>],
      [Base EXCEPT !["ph"] = <<"1", "5">>] }

Routes == {"/", "/predict", "/download_report", "/health"}

EmptyForm == [f \in {} |-> <<>>]

NoReq == [route |-> "none", form |-> EmptyForm]

NoResp == [status |-> 0, body |-> [kind |-> "none"]]

NoSeen == [form |-> EmptyForm, status |-> 0, label |-> ""]

(* ------------------------------ responses ----------------------------- *)

JsonError(status, error) == [status |-> status, body |-> [kind |-> "json", error |-> error]]

\* jsonify({'error': f'Missing required field: {field}'}), 400
MissingResponse(field) ==
    JsonError(400, [text |-> "Missing required field", field |-> field])

\* jsonify({'error': 'Models not loaded properly. Please check model files.'}), 500
ModelsNotLoadedResponse ==
    JsonError(500, [text |-> "Models not loaded properly. Please check model files."])

\* The except clauses of predict(): a ValueError is answered 400 with str(e),
\* anything else 500 with the fixed text.
PredictExcept(exc) ==
    IF exc.type = "ValueError"
    THEN JsonError(400, exc)
    ELSE JsonError(500, [text |-> "Prediction failed. Please try again."])

\* The except clauses of download_report().
ReportExcept(exc) ==
    IF exc.type = "ValueError"
    THEN JsonError(400, exc)
    ELSE JsonError(500, [text |-> "Failed to generate PDF report"])

\* `model is None or label_encoder is None`
ModelsMissing(m, e) == m = None \/ e = None

\* predict() from `prediction_array = ...` to the return of the result page.
PredictInfer(m, e, d) ==
    LET p == ClassifierPredict(m, d) IN
    IF p.raised # None
    THEN [ran |-> <<"predict">>,
          resp |-> PredictExcept([type |-> p.raised, text |-> p.text])]
    ELSE LET l == InverseTransform(e, p.value) IN
         IF l.raised # None
         THEN [ran |-> <<"predict", "inverse_transform">>,
               resp |-> PredictExcept([type |-> l.raised, text |-> l.text])]
         ELSE [ran |-> <<"predict", "inverse_transform">>,
               resp |-> [status |-> 200,
                         body |-> [kind |-> "result.html", crop |-> l.value, params |-> d]]]

\* download_report() from `buffer = BytesIO()` to send_file, the layout
\* ending as `outcome` says.
ReportRender(outcome, c, d) ==
    IF outcome = "ok"
    THEN [status |-> 200,
          body |-> [kind |-> "application/pdf", crop_line |-> Upper(c),
                    download_name |-> c, params |-> d]]
    ELSE ReportExcept([type |-> outcome, text |-> "raised while the page was laid out"])

\* health_check()
HealthResponse(m, e) ==
    [status |-> 200,
     body |-> [kind |-> "json", status |-> "healthy",
               models_loaded |-> (m # None /\ e # None)]]

(* --------------------------- the state machine ------------------------ *)

\* The process after `import app`: the artifacts on disk have been read once.
InitWith(modelFiles, encoderFiles) ==
    /\ files \in [model : modelFiles, encoder : encoderFiles]
    /\ model = LoadModels(files).model
    /\ label_encoder = LoadModels(files).label_encoder
    /\ pc = [t \in Threads |-> "idle"]
    /\ req = [t \in Threads |-> NoReq]
    /\ data = [t \in Threads |-> <<>>]
    /\ crop = [t \in Threads |-> <<>>]
    /\ resp = [t \in Threads |-> NoResp]
    /\ steps = [t \in Threads |-> <<>>]
    /\ lastSeen = NoSeen

Respond(t, r, ran) ==
    /\ resp' = [resp EXCEPT ![t] = r]
    /\ steps' = [steps EXCEPT ![t] = steps[t] \o ran]
    /\ pc' = [pc EXCEPT ![t] = "done"]

Advance(t, to, ran) ==
    /\ steps' = [steps EXCEPT ![t] = steps[t] \o ran]
    /\ pc' = [pc EXCEPT ![t] = to]
    /\ UNCHANGED resp

\* A request reaches the application.
Receive(t, forms) ==
    /\ pc[t] = "idle"
    /\ \E route \in Routes :
         \E form \in (IF route \in {"/predict", "/download_report"} THEN forms
                      ELSE {EmptyForm}) :
            req' = [req EXCEPT ![t] = [route |-> route, form |-> form]]
    /\ pc' = [pc EXCEPT ![t] = "dispatch"]
    /\ UNCHANGED <<files, model, label_encoder, data, crop, resp, steps, lastSeen>>

\* home()
Home(t) ==
    /\ pc[t] = "dispatch"
    /\ req[t].route = "/"
    /\ Respond(t, [status |-> 200, body |-> [kind |-> "index.html"]], <<>>)
    /\ UNCHANGED <<files, model, label_encoder, req, data, crop, lastSeen>>

\* health_check()
HealthCheck(t) ==
    /\ pc[t] = "dispatch"
    /\ req[t].route = "/health"
    /\ Respond(t, HealthResponse(model, label_encoder), <<>>)
    /\ UNCHANGED <<files, model, label_encoder, req, data, crop, lastSeen>>

RequiredOf(route) == IF route = "/predict" THEN PredictRequired ELSE ReportRequired

\* decorated_function: the presence check, before the handler is called.
ValidateRequired(t) ==
    /\ pc[t] = "dispatch"
    /\ req[t].route \in {"/predict", "/download_report"}
    /\ LET required == RequiredOf(req[t].route)
           i == FirstMissing(required, req[t].form)
       IN  IF i # 0
           THEN Respond(t, MissingResponse(required[i]), <<"required_fields">>)
           ELSE Advance(t, "handler", <<"required_fields">>)
    /\ UNCHANGED <<files, model, label_encoder, req, data, crop, lastSeen>>

\* Mutant: predict() without its check that the models are loaded.
PredictModelsCheckOmitted(t) ==
    /\ pc[t] = "handler"
    /\ req[t].route = "/predict"
    /\ Advance(t, "sanitize", <<>>)
    /\ UNCHANGED <<files, model, label_encoder, req, data, crop, lastSeen>>

\* predict(): the check that the models are loaded.
PredictModelsCheck(t) ==
    /\ pc[t] = "handler"
    /\ req[t].route = "/predict"
    /\ IF ModelsMissing(model, label_encoder)
       THEN Respond(t, ModelsNotLoadedResponse, <<"models_loaded">>)
       ELSE Advance(t, "sanitize", <<"models_loaded">>)
    /\ UNCHANGED <<files, model, label_encoder, req, data, crop, lastSeen>>

\* predict(): the list of the seven sanitized values.
PredictSanitize(t) ==
    /\ pc[t] = "sanitize"
    /\ req[t].route = "/predict"
    /\ LET i == FirstInvalid(PredictChecks, req[t].form) IN
       IF i # 0
       THEN /\ Respond(t, PredictExcept(SanitizeAt(PredictChecks, req[t].form, i).error),
                       <<"sanitize">>)
            /\ UNCHANGED data
       ELSE /\ Advance(t, "infer", <<"sanitize">>)
            /\ data' = [data EXCEPT ![t] = SanitizedData(PredictChecks, req[t].form)]
    /\ UNCHANGED <<files, model, label_encoder, req, crop, lastSeen>>

\* predict(): the classifier, the decoder and the result page.
PredictRun(t) ==
    /\ pc[t] = "infer"
    /\ req[t].route = "/predict"
    /\ LET r == PredictInfer(model, label_encoder, data[t]) IN
       Respond(t, r.resp, r.ran)
    /\ UNCHANGED <<files, model, label_encoder, req, data, crop, lastSeen>>

\* Mutant: download_report() opens with predict()'s check of the models.
ReportSanitizeChecksModels(t) ==
    /\ pc[t] = "handler"
    /\ req[t].route = "/download_report"
    /\ crop' = [crop EXCEPT ![t] = sanitize_input(req[t].form["crop"], MaxCropLen)]
    /\ LET i == FirstInvalid(ReportChecks, req[t].form) IN
       IF ModelsMissing(model, label_encoder)
       THEN /\ Respond(t, ModelsNotLoadedResponse, <<"models_loaded">>)
            /\ UNCHANGED data
       ELSE IF i # 0
       THEN /\ Respond(t, ReportExcept(SanitizeAt(ReportChecks, req[t].form, i).error),
                       <<"sanitize">>)
            /\ UNCHANGED data
       ELSE /\ Advance(t, "render", <<"sanitize">>)
            /\ data' = [data EXCEPT ![t] = SanitizedData(ReportChecks, req[t].form)]
    /\ UNCHANGED <<files, model, label_encoder, req, lastSeen>>

\* download_report(): the crop text and the dict of the seven values.
ReportSanitize(t) ==
    /\ pc[t] = "handler"
    /\ req[t].route = "/download_report"
    /\ crop' = [crop EXCEPT ![t] = sanitize_input(req[t].form["crop"], MaxCropLen)]
    /\ LET i == FirstInvalid(ReportChecks, req[t].form) IN
       IF i # 0
       THEN /\ Respond(t, ReportExcept(SanitizeAt(ReportChecks, req[t].form, i).error),
                       <<"sanitize">>)
            /\ UNCHANGED data
       ELSE /\ Advance(t, "render", <<"sanitize">>)
            /\ data' = [data EXCEPT ![t] = SanitizedData(ReportChecks, req[t].form)]
    /\ UNCHANGED <<files, model, label_encoder, req, lastSeen>>

\* download_report(): the canvas calls and send_file.
ReportRun(t) ==
    /\ pc[t] = "render"
    /\ req[t].route = "/download_report"
    /\ \E outcome \in RenderOutcomes :
          Respond(t, ReportRender(outcome, crop[t], data[t]), <<"render">>)
    /\ UNCHANGED <<files, model, label_encoder, req, data, crop, lastSeen>>

SeenOf(t) ==
    [form |-> req[t].form, status |-> resp[t].status,
     label |-> IF resp[t].status = 200 THEN resp[t].body.crop ELSE ""]

\* The response is sent and the request's locals are gone.  `remember` says
\* whether an observer may keep a /predict answer to compare later ones with.
Return(t, remember) ==
    /\ pc[t] = "done"
    /\ \E keep \in remember :
          lastSeen' = IF keep /\ req[t].route = "/predict" THEN SeenOf(t) ELSE lastSeen
    /\ pc' = [pc EXCEPT ![t] = "idle"]
    /\ req' = [req EXCEPT ![t] = NoReq]
    /\ data' = [data EXCEPT ![t] = <<>>]
    /\ crop' = [crop EXCEPT ![t] = <<>>]
    /\ resp' = [resp EXCEPT ![t] = NoResp]
    /\ steps' = [steps EXCEPT ![t] = <<>>]
    /\ UNCHANGED <<files, model, label_encoder>>

Step(t, forms, remember) ==
    \/ Receive(t, forms)
    \/ Home(t)
    \/ HealthCheck(t)
    \/ ValidateRequired(t)
    \/ PredictModelsCheck(t)
    \/ PredictSanitize(t)
    \/ PredictRun(t)
    \/ ReportSanitize(t)
    \/ ReportRun(t)
    \/ Return(t, remember)

\* One request at a time, over every form and every pair of artifacts.
Init == InitWith(ModelFiles, EncoderFiles)

Next == Step(1, Forms, {FALSE})

Spec == Init /\ [][Next]_vars

\* Up to NumThreads requests in flight, their steps interleaved.
InitConc == InitWith({"absent", "rf_ok"}, {"corrupt", "le_ok"})

NextConc == \E t \in Threads : Step(t, FewForms, BOOLEAN)

SpecConc == InitConc /\ [][NextConc]_vars

(* ------------------------- what the claims use ------------------------ *)

NumericOrder == <<"N", "P", "K", "temperature", "humidity", "ph", "rainfall">>

ReportOrder == <<"crop">> \o NumericOrder

DeclaredMin(f) == IF f = "temperature" THEN -50 ELSE 0

DeclaredMax(f) ==
    CASE f \in {"N", "P", "K"} -> 200
      [] f \in {"temperature", "humidity"} -> 100
      [] f = "ph" -> 14
      [] f = "rainfall" -> 1000

\* The name a validation message gives the field, per endpoint.
DisplayName(route, f) ==
    CASE f = "N" -> IF route = "/predict" THEN "Nitrogen (N)" ELSE "Nitrogen"
      [] f = "P" -> IF route = "/predict" THEN "Phosphorus (P)" ELSE "Phosphorus"
      [] f = "K" -> IF route = "/predict" THEN "Potassium (K)" ELSE "Potassium"
      [] f = "temperature" -> "Temperature"
      [] f = "humidity" -> "Humidity"
      [] f = "ph" -> "pH"
      [] f = "rainfall" -> "Rainfall"

OrderOf(route) == IF route = "/predict" THEN NumericOrder ELSE ReportOrder

IsBlank(form, f) ==
    \/ f \notin DOMAIN form
    \/ \A i \in 1..Len(form[f]) : form[f][i] \in Whitespace

AllPresent(form, order) == \A i \in 1..Len(order) : ~IsBlank(form, order[i])

Parses(form, f) == FloatAccepts(Clean(form[f]))

ValueOf(form, f) == FloatValue(Clean(form[f]))

Scaled(form, f, bound) == bound * Pow10(ValueOf(form, f).e)

InBounds(form, f) ==
    /\ Parses(form, f)
    /\ Signed(ValueOf(form, f)) >= Scaled(form, f, DeclaredMin(f))
    /\ Signed(ValueOf(form, f)) <= Scaled(form, f, DeclaredMax(f))

OutOfBounds(form, f) == Parses(form, f) /\ ~InBounds(form, f)

AtBound(form, f) ==
    /\ Parses(form, f)
    /\ Signed(ValueOf(form, f)) \in
          {Scaled(form, f, DeclaredMin(f)), Scaled(form, f, DeclaredMax(f))}

AllValid(form) == \A i \in 1..Len(NumericOrder) : InBounds(form, NumericOrder[i])

DoneOn(t, route) == pc[t] = "done" /\ req[t].route = route

Ran(t, step) == \E i \in 1..Len(steps[t]) : steps[t][i] = step

HasError(r) == r.body.kind = "json" /\ "error" \in DOMAIN r.body

ErrorIs(r, text) == HasError(r) /\ r.body.error.text = text

NamesField(r, name) ==
    /\ HasError(r)
    /\ "field" \in DOMAIN r.body.error
    /\ r.body.error.field = name

Unavailable(r) ==
    r.status = 500 /\ ErrorIs(r, "Models not loaded properly. Please check model files.")

\* Both artifacts were there and loadable when the process started.
StartupLoaded ==
    /\ files.model \notin {"absent", "corrupt"}
    /\ files.encoder \notin {"absent", "corrupt"}

IsPrefix(s, full) == Len(s) <= Len(full) /\ s = SubSeq(full, 1, Len(s))

(* ------------------------------- claims ------------------------------- *)

\* C1: the classifier is invoked (or about to be) only on /predict, with all
\* seven values parsed and each within its declared inclusive bounds, the
\* vector passed being those values; a /predict request with an unparseable
\* or out-of-range value ends without the classifier having been invoked.
C1_ClassifierOnlyOnValidVector ==
    \A t \in Threads :
       /\ (pc[t] = "infer" \/ Ran(t, "predict")) =>
             /\ req[t].route = "/predict"
             /\ AllPresent(req[t].form, NumericOrder)
             /\ AllValid(req[t].form)
             /\ data[t] = [i \in 1..7 |-> ValueOf(req[t].form, NumericOrder[i])]
       /\ (DoneOn(t, "/predict") /\ AllPresent(req[t].form, NumericOrder)
             /\ ~AllValid(req[t].form)) => ~Ran(t, "predict")

C1_Witness ==
    \E t \in Threads :
       /\ DoneOn(t, "/predict") /\ Ran(t, "predict") /\ resp[t].status = 200
       /\ req[t].form["rainfall"] = <<"1", "0", "0", "0">>

\* C2 as stated: with all required fields present, a field outside its bounds
\* always yields 400 naming that field, and a value at a bound yields no
\* validation error for that field.
C2_Original ==
    \A t \in Threads : \A route \in {"/predict", "/download_report"} :
       (DoneOn(t, route) /\ AllPresent(req[t].form, OrderOf(route))) =>
          \A i \in 1..Len(NumericOrder) :
             /\ OutOfBounds(req[t].form, NumericOrder[i]) =>
                   /\ resp[t].status = 400
                   /\ NamesField(resp[t], DisplayName(route, NumericOrder[i]))
             /\ AtBound(req[t].form, NumericOrder[i]) =>
                   ~(/\ resp[t].status = 400
                     /\ NamesField(resp[t], DisplayName(route, NumericOrder[i])))

\* C2 amended: on /download_report, and on /predict when the models loaded,
\* with all required fields present, a field outside its bounds whose earlier
\* fields are all valid yields 400 naming that field; a value at a bound
\* yields no validation error for that field.
C2_Amended ==
    \A t \in Threads : \A route \in {"/predict", "/download_report"} :
       (DoneOn(t, route) /\ AllPresent(req[t].form, OrderOf(route))) =>
          \A i \in 1..Len(NumericOrder) :
             /\ (/\ route = "/download_report" \/ StartupLoaded
                 /\ OutOfBounds(req[t].form, NumericOrder[i])
                 /\ \A j \in 1..(i - 1) : InBounds(req[t].form, NumericOrder[j])) =>
                   /\ resp[t].status = 400
                   /\ NamesField(resp[t], DisplayName(route, NumericOrder[i]))
                   /\ resp[t].body.error.detail \in {"must be at least", "must be at most"}
             /\ AtBound(req[t].form, NumericOrder[i]) =>
                   ~(/\ resp[t].status = 400
                     /\ NamesField(resp[t], DisplayName(route, NumericOrder[i])))

C2_Witness ==
    \E t \in Threads :
       /\ DoneOn(t, "/predict") /\ StartupLoaded
       /\ req[t].form = [Base EXCEPT !["ph"] = <<"1", "4", ".", "0", "1">>]
       /\ resp[t].status = 400 /\ NamesField(resp[t], "pH")

\* C3: a /predict or /download_report request with a required field absent or
\* blank is answered 400 "Missing required field" naming the first such field
\* in the endpoint's order, whatever the load state and the other fields, and
\* nothing but the presence check has run: nothing was parsed.
C3_MissingFieldIs400 ==
    \A t \in Threads : \A route \in {"/predict", "/download_report"} :
       (DoneOn(t, route) /\ ~AllPresent(req[t].form, OrderOf(route))) =>
          LET order == OrderOf(route)
              first == CHOOSE i \in 1..Len(order) :
                          /\ IsBlank(req[t].form, order[i])
                          /\ \A j \in 1..(i - 1) : ~IsBlank(req[t].form, order[j])
          IN  /\ resp[t].status = 400
              /\ ErrorIs(resp[t], "Missing required field")
              /\ NamesField(resp[t], order[first])
              /\ steps[t] = <<"required_fields">>
              /\ data[t] = <<>> /\ crop[t] = <<>>

C3_Witness ==
    \E t \in Threads :
       /\ DoneOn(t, "/predict") /\ ~StartupLoaded
       /\ "N" \in DOMAIN req[t].form /\ req[t].form["N"] = <<"a", "b", "c">>
       /\ "K" \in DOMAIN req[t].form /\ req[t].form["K"] = <<" ">>
       /\ resp[t].status = 400 /\ NamesField(resp[t], "K")

\* C4 as stated: in the degraded state every /predict call, whatever its
\* form, returns 500 models-unavailable, and /health reports false.
C4_Original ==
    ~StartupLoaded =>
       \A t \in Threads :
          /\ DoneOn(t, "/predict") => Unavailable(resp[t])
          /\ DoneOn(t, "/health") => resp[t].body.models_loaded = FALSE

\* C4 amended: in the degraded state every /predict call whose seven fields
\* are all present and non-blank returns 500 models-unavailable, whatever
\* their values; one with a field absent or blank returns 400; /health
\* reports models_loaded = false.
C4_Amended ==
    ~StartupLoaded =>
       \A t \in Threads :
          /\ (DoneOn(t, "/predict") /\ AllPresent(req[t].form, NumericOrder)) =>
                Unavailable(resp[t])
          /\ (DoneOn(t, "/predict") /\ ~AllPresent(req[t].form, NumericOrder)) =>
                resp[t].status = 400
          /\ DoneOn(t, "/health") =>
                resp[t].status = 200 /\ resp[t].body.models_loaded = FALSE

C4_Witness ==
    \E t \in Threads :
       /\ ~StartupLoaded /\ DoneOn(t, "/predict")
       /\ AllPresent(req[t].form, NumericOrder) /\ ~AllValid(req[t].form)
       /\ Unavailable(resp[t])

PredictSteps ==
    <<"required_fields", "models_loaded", "sanitize", "predict", "inverse_transform">>

FirstBad(form) ==
    CHOOSE i \in 1..Len(NumericOrder) :
       /\ ~InBounds(form, NumericOrder[i])
       /\ \A j \in 1..(i - 1) : InBounds(form, NumericOrder[j])

\* C5 as stated: a /predict request with all seven fields present and one
\* invalid returns 400 with the first invalid field's message, and the
\* models-unavailable 500 is returned only when all seven values are valid.
C5_Original ==
    \A t \in Threads :
       (DoneOn(t, "/predict") /\ AllPresent(req[t].form, NumericOrder)) =>
          /\ ~AllValid(req[t].form) =>
                /\ resp[t].status = 400
                /\ NamesField(resp[t], DisplayName("/predict", NumericOrder[FirstBad(req[t].form)]))
          /\ Unavailable(resp[t]) => AllValid(req[t].form)

\* C5 amended: /predict runs presence check -> model availability -> Input
\* Sanitizer -> inference.  With the models loaded, a request with all seven
\* fields present and one invalid returns 400 with the message of the first
\* invalid field in the order N, P, K, temperature, humidity, ph, rainfall;
\* in the degraded state the models-unavailable 500 is returned for every
\* request that passed the presence check, before any value is validated.
C5_Amended ==
    \A t \in Threads :
       /\ req[t].route = "/predict" => IsPrefix(steps[t], PredictSteps)
       /\ (DoneOn(t, "/predict") /\ AllPresent(req[t].form, NumericOrder)) =>
             /\ (StartupLoaded /\ ~AllValid(req[t].form)) =>
                   /\ resp[t].status = 400
                   /\ NamesField(resp[t],
                         DisplayName("/predict", NumericOrder[FirstBad(req[t].form)]))
                   /\ steps[t] = SubSeq(PredictSteps, 1, 3)
             /\ ~StartupLoaded =>
                   /\ Unavailable(resp[t])
                   /\ steps[t] = SubSeq(PredictSteps, 1, 2)

C5_Witness ==
    \E t \in Threads :
       /\ DoneOn(t, "/predict") /\ StartupLoaded
       /\ AllPresent(req[t].form, NumericOrder)
       /\ ~InBounds(req[t].form, "P") /\ ~InBounds(req[t].form, "rainfall")
       /\ resp[t].status = 400 /\ NamesField(resp[t], "Phosphorus (P)")

\* C6 as stated: with the models loaded and seven valid values, any failure
\* raised by the classifier or the decoder is answered 500 "Prediction
\* failed", never 400 and never with the exception's own message.
C6_InferenceFailureIsGeneric500 ==
    \A t \in Threads :
       (DoneOn(t, "/predict") /\ Ran(t, "predict") /\ resp[t].status # 200) =>
          /\ resp[t].status = 500
          /\ ErrorIs(resp[t], "Prediction failed. Please try again.")

\* C7: the load status is what startup made it, whatever requests have run
\* or are running: both names hold the loaded artifacts when both loaded and
\* None otherwise, and every /health answer is 200 with models_loaded equal
\* to that startup outcome.
C7_LoadStatusFixed ==
    /\ StartupLoaded => (model = files.model /\ label_encoder = files.encoder)
    /\ ~StartupLoaded => (model = None /\ label_encoder = None)
    /\ \A t \in Threads :
          DoneOn(t, "/health") =>
             /\ resp[t].status = 200
             /\ resp[t].body.models_loaded = StartupLoaded

C7_Witness ==
    \E t \in Threads : \E u \in Threads \ {t} :
       /\ DoneOn(t, "/health") /\ resp[t].body.models_loaded = FALSE
       /\ files.model = "rf_ok" /\ files.encoder = "corrupt"
       /\ pc[u] = "handler" /\ req[u].route = "/download_report"
       /\ lastSeen.status = 500

\* C8: two /predict requests with the same seven field values get the same
\* status and, on success, the same label, whether they are in flight
\* together or one was answered before the other arrived.
C8_SameVectorSameAnswer ==
    /\ \A t \in Threads : \A u \in Threads :
          (DoneOn(t, "/predict") /\ DoneOn(u, "/predict")
             /\ req[t].form = req[u].form) => SeenOf(t) = SeenOf(u)
    /\ \A t \in Threads :
          (DoneOn(t, "/predict") /\ lastSeen.status # 0
             /\ req[t].form = lastSeen.form) => SeenOf(t) = lastSeen

C8_Witness ==
    \E t \in Threads : \E u \in Threads \ {t} :
       /\ DoneOn(t, "/predict") /\ DoneOn(u, "/predict")
       /\ req[t].form = Base /\ req[u].form = [Base EXCEPT !["rainfall"] = <<"0">>]
       /\ resp[t].status = 200 /\ resp[t].body.crop = "rice"
       /\ resp[u].status = 200 /\ resp[u].body.crop = "chickpea"
       /\ lastSeen.status = 200 /\ lastSeen.form = Base /\ lastSeen.label = "rice"

\* C9 as stated: /download_report answers 400 exactly for a missing, blank,
\* unparseable or out-of-range field; once validation has passed it answers
\* 200, or 500 "Failed to generate PDF report" for any exception raised
\* during layout, and never 400.
C9_ReportOutcomes ==
    \A t \in Threads :
       DoneOn(t, "/download_report") =>
          IF ~AllPresent(req[t].form, ReportOrder) \/ ~AllValid(req[t].form)
          THEN resp[t].status = 400
          ELSE \/ resp[t].status = 200
               \/ resp[t].status = 500 /\ ErrorIs(resp[t], "Failed to generate PDF report")

\* C10: /download_report never reads the load state nor runs the classifier:
\* whether the models loaded or not, a request is answered 400 exactly when
\* a field is missing or invalid, otherwise the layout runs, and the page
\* shows the supplied crop text trimmed, cut to 100 characters and
\* upper-cased, whether or not it is a label of the decoder.
C10_ReportIgnoresModels ==
    \A t \in Threads :
       /\ req[t].route = "/download_report" =>
             ~Ran(t, "models_loaded") /\ ~Ran(t, "predict")
       /\ DoneOn(t, "/download_report") =>
             /\ ~Unavailable(resp[t])
             /\ (~AllPresent(req[t].form, ReportOrder) \/ ~AllValid(req[t].form)) =>
                   resp[t].status = 400 /\ ~Ran(t, "render")
             /\ (AllPresent(req[t].form, ReportOrder) /\ AllValid(req[t].form)) =>
                   /\ Ran(t, "render")
                   /\ resp[t].status = 200 =>
                         resp[t].body.crop_line =
                            Upper(Truncate(Strip(req[t].form["crop"]), 100))

C10_Witness ==
    \E t \in Threads :
       /\ ~StartupLoaded /\ DoneOn(t, "/download_report")
       /\ resp[t].status = 200
       /\ req[t].form["crop"] = LongCrop
       /\ resp[t].body.crop_line = [i \in 1..100 |-> "A"]

====
